---- MODULE Spec2Model ----
(***************************************************************************)
(* Model of the CFR decompiler MCP server: cfr_mcp_server.py (the single   *)
(* transport server, "v1") and cfr_mcp_server_v2.py (stdio / sse / both,   *)
(* with the archive strategies, "v2").                                     *)
(*                                                                         *)
(* Text is a sequence of tokens (strings): an f-string is the              *)
(* concatenation of its pieces, `in` is contiguous-subsequence search,     *)
(* str.strip() emptiness is "every token is whitespace".                   *)
(***************************************************************************)
EXTENDS Naturals, Integers, Sequences, FiniteSets, TLC

\* ------------------------------------------------------------------ bounds
\* number of tool calls that can be in flight at once (call slots)
NumCalls == 2

Calls == 1..NumCalls

\* names tempfile can hand out: enough for every call to hold a directory
TmpNames == 1..NumCalls

\* the directory name mkdtemp returns, as text
DirStr(n) == CASE n = 1 -> "/tmp/tmp1" [] n = 2 -> "/tmp/tmp2" [] n = 3 -> "/tmp/tmp3"
               [] n = 4 -> "/tmp/tmp4" [] OTHER -> "/tmp/tmpN"

\* ------------------------------------------------------------ text helpers
None == "None"

WS == {" ", "\n", "\t"}

\* Python: not (s and len(s.strip()) > 0)
IsBlank(s) == \A i \in 1..Len(s) : s[i] \in WS

\* Python: needle in hay   (needle, hay are token sequences)
Contains(hay, needle) ==
    \E i \in 0..(Len(hay) - Len(needle)) :
        \A j \in 1..Len(needle) : hay[i + j] = needle[j]

\* Python: s.startswith(p)
StartsWith(s, p) ==
    /\ Len(p) <= Len(s)
    /\ \A j \in 1..Len(p) : s[j] = p[j]

\* Python: s.endswith(p)
EndsWith(s, p) ==
    /\ Len(p) <= Len(s)
    /\ \A j \in 1..Len(p) : s[Len(s) - Len(p) + j] = p[j]

\* Python: s.replace(a, b) for a single token a
ReplaceTok(s, a, b) == [i \in 1..Len(s) |-> IF s[i] = a THEN b ELSE s[i]]

\* Python: s.replace('.class', ''): drop every occurrence of the pair <<".", "class">>
RECURSIVE DropDotClass(_)
DropDotClass(s) ==
    IF Len(s) = 0 THEN <<>>
    ELSE IF Len(s) >= 2 /\ s[1] = "." /\ s[2] = "class"
         THEN DropDotClass(SubSeq(s, 3, Len(s)))
         ELSE <<s[1]>> \o DropDotClass(Tail(s))

\* Python: sep.join(blocks)
RECURSIVE Join(_, _)
Join(blocks, sep) ==
    IF Len(blocks) = 0 THEN <<>>
    ELSE IF Len(blocks) = 1 THEN blocks[1]
    ELSE blocks[1] \o sep \o Join(Tail(blocks), sep)

\* Python: str(len(xs)) / str(n) for the small numbers that occur
NumStr(n) == CASE n = 0 -> "0" [] n = 1 -> "1" [] n = 2 -> "2" [] n = 3 -> "3"
               [] OTHER -> "many"

\* ------------------------------------------------------------- environment
\* configuration (module level)
CFR_JAR_PATH == "cfr.jar"

\* the files a call can name.  A path is a token; what pathlib computes from it
\* (exists(), suffix, name, stat().st_size) is tabulated here.
PathMissing == "/w/missing.class"
PathClass   == "/w/A.class"
PathBad     == "/w/Bad.class"
PathJar     == "/w/lib.jar"
PathJarUp   == "/w/LIB.JAR"

Paths == {PathMissing, PathClass, PathBad, PathJar, PathJarUp}

PathExists(p) == p # PathMissing

PathSuffix(p) == CASE p = PathJar   -> ".jar"
                   [] p = PathJarUp -> ".JAR"
                   [] OTHER         -> ".class"

PathName(p) == CASE p = PathJar     -> "lib.jar"
                 [] p = PathJarUp   -> "LIB.JAR"
                 [] p = PathClass   -> "A.class"
                 [] p = PathBad     -> "Bad.class"
                 [] OTHER           -> "missing.class"

PathSize(p) == "2048"

\* Python: str.lower() on the suffixes that occur
Lower(s) == CASE s = ".JAR"  -> ".jar"
             [] s = "True"  -> "true"
             [] s = "False" -> "false"
             [] OTHER       -> s

\* the archive both jar paths hold, in zipfile.infolist() order:
\* entry name (tokens) and whether the raw bytes hold the token "computeTotal"
EFoo      == <<"pkg", "/", "Foo", ".", "class">>
ENotes    == <<"META-INF", "/", "notes", ".", "txt">>
EOtherFoo == <<"other", "/", "pkg", "/", "Foo", ".", "class">>
EBar      == <<"Bar", ".", "class">>

ArchiveEntries == <<EFoo, ENotes, EOtherFoo, EBar>>

\* the UTF-8 strings found in an entry's raw bytes
EntryBytes(e) == CASE e = EFoo      -> {<<"computeTotal">>, <<"Foo">>}
                   [] e = ENotes    -> {<<"computeTotal">>}
                   [] e = EOtherFoo -> {<<"computeTotal">>, <<"Foo">>}
                   [] OTHER         -> {<<"Bar">>}

\* ------------------------------------------------- the external decompiler
\* What the child process (java -jar cfr.jar <file> ...) prints for each file
\* when it runs to completion: an opaque executable, tabulated per file.
\* file is a token sequence: <<path>> for a file given directly, the entry name
\* for an extracted entry.  withMethod: the command carries --methodname.
Code(name, body) == <<"class ", name, " {">> \o body \o <<"}">>

CfrStdout(file, withMethod) ==
    CASE file = <<PathClass>> -> Code("A", <<"computeTotal", "()">>)
      [] file = <<PathBad>>   -> <<>>
      [] file = <<PathJar>>   -> Code("Foo", <<"computeTotal", "()">>) \o Code("Bar", <<>>)
      [] file = <<PathJarUp>> -> Code("Foo", <<"computeTotal", "()">>) \o Code("Bar", <<>>)
      [] file = EFoo          -> Code("Foo", <<"computeTotal", "()">>)
      [] file = EOtherFoo     -> IF withMethod THEN <<>> ELSE Code("Foo", <<>>)
      [] OTHER                -> <<>>

CfrStderr(file) ==
    CASE file = <<PathBad>>   -> <<"Can't load the class specified", "\n">>
      [] file = <<PathJar>>   -> <<"warn: recovered", "\n">>
      [] file = <<PathJarUp>> -> <<"warn: recovered", "\n">>
      [] file = EOtherFoo     -> <<" ", "\n">>
      [] OTHER                -> <<>>

CfrExit(file) == IF file \in {<<PathBad>>, EBar} THEN 1 ELSE 0

\* the ways one subprocess.run can end
ProcExit(file, withMethod) ==
    [kind |-> "exit", stdout |-> CfrStdout(file, withMethod),
     stderr |-> CfrStderr(file), rc |-> CfrExit(file)]

ProcTimeout == [kind |-> "timeout", stdout |-> <<>>, stderr |-> <<>>, rc |-> 0 - 9]

ProcOSError == [kind |-> "oserror", stdout |-> <<>>, stderr |-> <<>>, rc |-> 0 - 1]

OSErrorStr == "[Errno 2] No such file or directory: 'java'"

\* ------------------------------------------------------------ run_cfr_sync
TimeoutDiag(impl) ==
    IF impl = "v1"
    THEN <<"/* Error: Decompilation timed out.", " File might be too complex or large.", " */">>
    ELSE <<"/* Error: Decompilation timed out.", " */">>

ExecErrorDiag(impl, e) ==
    IF impl = "v1" THEN <<"/* Error executing CFR", " (zh)", ": ", e, " */">>
    ELSE <<"/* Error executing CFR", ": ", e, " */">>

StderrBlock(stderr) == <<"\n\n", "/*\n[CFR STDERR]\n">> \o stderr \o <<"\n*/">>

\* a runner whose generic handler also takes the timeout
run_cfr_sync_one_handler(im, proc) ==
    CASE proc.kind = "timeout" -> ExecErrorDiag(im, "timed out after 60 seconds")
      [] proc.kind = "oserror" -> ExecErrorDiag(im, OSErrorStr)
      [] OTHER ->
            IF Len(proc.stderr) > 0 /\ ~IsBlank(proc.stderr)
            THEN proc.stdout \o StderrBlock(proc.stderr)
            ELSE proc.stdout

\* a runner that appends whatever stderr holds, without the strip() test
run_cfr_sync_any_stderr(im, proc) ==
    CASE proc.kind = "timeout" -> TimeoutDiag(im)
      [] proc.kind = "oserror" -> ExecErrorDiag(im, OSErrorStr)
      [] OTHER ->
            IF Len(proc.stderr) > 0
            THEN proc.stdout \o StderrBlock(proc.stderr)
            ELSE proc.stdout

\* the text run_cfr_sync returns when the child process ends as proc
run_cfr_sync(im, proc) ==
    CASE proc.kind = "timeout" -> TimeoutDiag(im)
      [] proc.kind = "oserror" -> ExecErrorDiag(im, OSErrorStr)
      [] OTHER ->
            IF Len(proc.stderr) > 0 /\ ~IsBlank(proc.stderr)
            THEN proc.stdout \o StderrBlock(proc.stderr)
            ELSE proc.stdout

\* ------------------------------------------------------------ archive scan
IsClassEntry(e) == EndsWith(e, <<".", "class">>)

\* indexes at which reading the archive can fail during the method scan:
\* 0 = the archive cannot be opened, k = reading class entry k fails,
\* Len + 1 = no failure
ScanFailPoints(entries) ==
    {0, Len(entries) + 1} \cup {k \in 1..Len(entries) : IsClassEntry(entries[k])}

MethodHit(e, method_name) == IsClassEntry(e) /\ method_name \in EntryBytes(e)

\* candidates appended before the read failure at failAt (if any) are kept
find_classes_in_jar(entries, method_name, failAt) ==
    IF failAt = 0 THEN <<>>
    ELSE LET read == SubSeq(entries, 1, failAt - 1)
             Hit(e) == MethodHit(e, method_name)
         IN  SelectSeq(read, Hit)

HasDot(s) == \E i \in 1..Len(s) : s[i] = "."

ClassTarget(class_name) ==
    IF HasDot(class_name) /\ ~EndsWith(class_name, <<".", "class">>)
    THEN [path |-> ReplaceTok(class_name, ".", "/") \o <<".", "class">>, exact |-> TRUE]
    ELSE [path |-> DropDotClass(class_name) \o <<".", "class">>, exact |-> FALSE]

\* a match that takes any entry ending with the target path
ClassHitSuffix(e, t) == IsClassEntry(e) /\ EndsWith(e, t.path)

ClassHit(e, t) ==
    /\ IsClassEntry(e)
    /\ IF t.exact THEN e = t.path
       ELSE EndsWith(e, <<"/">> \o t.path) \/ e = t.path

find_class_by_name_in_jar(entries, class_name, openOk) ==
    IF ~openOk THEN <<>>
    ELSE LET t == ClassTarget(class_name)
             Hit(e) == ClassHit(e, t)
         IN  SelectSeq(entries, Hit)

\* ------------------------------------------------------- aggregated results
ClassNotFoundMsg(class_name, jar) ==
    <<"/* Class '">> \o class_name
       \o <<"' not found in ", PathName(jar), ".\n   Tips: ...\n*/">>

ClassNoOutputMsg(n) == <<"/* Found ", NumStr(n), " class(es) but CFR produced no output. */">>

MethodNotFoundMsg(method_name, jar) ==
    <<"/* Method '">> \o method_name
       \o <<"' not found in any class within ", PathName(jar),
            " (scanned ", PathSize(jar), " bytes) */">>

MethodNoOutputMsg(method_name, n) ==
    <<"/* Method '">> \o method_name
       \o <<"' matched binary search in ", NumStr(n),
            " classes but CFR produced no output. */">>

SourceBlock(class_file, output) == <<"// Source: ">> \o class_file \o <<"\n">> \o output

FailedBlock(class_file, e) == <<"/* Failed to decompile ">> \o class_file \o <<": ", e, " */">>

ExtractErrorStr == "[Errno 28] No space left on device"

\* ------------------------------------------------------------------- state
VARIABLES
    impl,      \* the program that runs: "v1" (cfr_mcp_server.py) or "v2"
    mode,      \* --mode: "stdio", "sse" or "both"
    logger,    \* the module-level logger: "unset" or "cfr_server"
    mainPc,    \* where the main thread is
    stdio,     \* the stream loop: "off" or "serving"
    sse,       \* the HTTP listener: "off", "starting" (uvicorn.run entered), "listening"
    tmp,       \* the temporary directories: name -> [exists, owner, files]
    call       \* the tool calls: slot -> record

vars == <<impl, mode, logger, mainPc, stdio, sse, tmp, call>>

NoName == <<>>

NoOptions == [kind |-> "absent", items |-> <<>>]

Args(name, fp, cn, mn, ie, hu, opt) ==
    [name |-> name, file_path |-> fp, class_name |-> cn, method_name |-> mn,
     ignore_exceptions |-> ie, hide_utf |-> hu, options |-> opt]

NoArgs == Args(None, None, NoName, NoName, FALSE, FALSE, NoOptions)

\* no subprocess.run has ended yet
NoProc == [kind |-> "none", stdout |-> <<>>, stderr |-> <<>>, rc |-> 0]

NoDir == [exists |-> FALSE, owner |-> 0, files |-> {}]

IdleCall ==
    [pc |-> "idle", transport |-> None, args |-> NoArgs, cfr_jar |-> TRUE,
     route |-> "none", error |-> None, base_args |-> <<>>, cmd |-> <<>>, target |-> <<>>,
     candidates |-> <<>>, idx |-> 0, results |-> <<>>, result |-> <<>>,
     ws |-> 0, child |-> "none", proc |-> NoProc, output |-> <<>>,
     runs |-> 0, spawned |-> 0, scans |-> 0, made |-> 0, extracted |-> 0,
     timedOut |-> FALSE, failed |-> {}, scanFailed |-> FALSE, thread |-> "none"]

\* ------------------------------------------------------------------ inputs
ClassQueries == {NoName, <<"Foo">>, <<"pkg", ".", "Foo">>, <<"Bar">>, <<"Nope">>,
                 <<"Foo", ".", "class">>}

MethodQueries == {NoName, <<"computeTotal">>, <<"nothing">>}

FilePaths == {None, ""} \cup Paths

\* the options argument: absent, JSON null, or a mapping (its items in order)
NullOptions == [kind |-> "null", items |-> <<>>]

DictOptions(items) == [kind |-> "dict", items |-> items]

OptItem(k, isbool, v) == [key |-> k, isbool |-> isbool, str |-> v]

OptionValues ==
    {NoOptions, NullOptions,
     DictOptions(<<OptItem(<<"sugarboxing">>, TRUE, "False")>>),
     DictOptions(<<OptItem(<<"out", "-", "dir">>, FALSE, "/x"),
                   OptItem(<<"renamedupmembers">>, TRUE, "True")>>),
     DictOptions(<<OptItem(<<"out", " ", "dir">>, FALSE, "/x"),
                   OptItem(<<"x1", "\n", "x1">>, FALSE, "v"),
                   OptItem(<<"\t", "x1">>, FALSE, "v"),
                   OptItem(<<"sugarboxing">>, TRUE, "True")>>),
     DictOptions(<<OptItem(<<"x1", "\n">>, FALSE, "v")>>)}

\* the arguments a call can carry: every routing combination with the plain
\* flags, and every flag / options combination on one class file and one archive
ArgSpace ==
    {Args("decompile", fp, cn, mn, FALSE, FALSE, opt) :
        fp \in FilePaths, cn \in ClassQueries, mn \in MethodQueries,
        opt \in {NoOptions, NullOptions}}
    \cup
    {Args("decompile", fp, NoName, mn, ie, hu, opt) :
        fp \in {PathClass, PathJar}, mn \in {NoName, <<"computeTotal">>},
        ie \in BOOLEAN, hu \in BOOLEAN, opt \in OptionValues}
    \cup
    {Args("other", PathClass, NoName, NoName, FALSE, FALSE, NoOptions)}

\* the arguments of the calls that run concurrently: archive searches
ConcArgSpace ==
    {Args("decompile", PathJar, <<"pkg", ".", "Foo">>, NoName, FALSE, FALSE, NoOptions),
     Args("decompile", PathJar, NoName, <<"nothing">>, FALSE, FALSE, NoOptions)}

\* ------------------------------------------------------------------ startup
Modes == {"stdio", "sse", "both"}

\* v1 sets its logger at import and only serves HTTP; v2 starts in main()
Init ==
    /\ impl \in {"v1", "v2"}
    /\ mode \in (IF impl = "v1" THEN {"sse"} ELSE Modes)
    /\ logger = (IF impl = "v1" THEN "cfr_server" ELSE "unset")
    /\ mainPc = (IF impl = "v1" THEN "start" ELSE "setup")
    /\ stdio = "off"
    /\ sse = "off"
    /\ tmp = [n \in TmpNames |-> NoDir]
    /\ call = [c \in Calls |-> IdleCall]

\* a main() that goes on to its mode without the logging setup
setup_logging_skipped ==
    /\ mainPc = "setup"
    /\ mainPc' = "start"
    /\ UNCHANGED <<impl, mode, logger, stdio, sse, tmp, call>>

setup_logging ==
    /\ mainPc = "setup"
    /\ logger' = "cfr_server"
    /\ mainPc' = "start"
    /\ UNCHANGED <<impl, mode, stdio, sse, tmp, call>>

run_stdio_mode ==
    /\ \/ mainPc = "start" /\ mode = "stdio"
       \/ mainPc = "sleep"
    /\ stdio' = "serving"
    /\ mainPc' = "serving"
    /\ UNCHANGED <<impl, mode, logger, sse, tmp, call>>

\* sse mode: the main thread enters uvicorn.run
run_sse_mode ==
    /\ mainPc = "start" /\ mode = "sse"
    /\ sse' = "starting"
    /\ mainPc' = "serving"
    /\ UNCHANGED <<impl, mode, logger, stdio, tmp, call>>

\* both mode: the listener thread is started, the main thread goes to sleep(1)
run_both_mode ==
    /\ mainPc = "start" /\ mode = "both"
    /\ sse' = "starting"
    /\ mainPc' = "sleep"
    /\ UNCHANGED <<impl, mode, logger, stdio, tmp, call>>

\* uvicorn binds its socket, whenever its thread gets there
run_sse_server ==
    /\ sse = "starting"
    /\ sse' = "listening"
    /\ UNCHANGED <<impl, mode, logger, mainPc, stdio, tmp, call>>

Serving(t) == IF t = "stdio" THEN stdio = "serving" ELSE sse = "listening"

\* ---------------------------------------------------------------- call_tool
AlnumChunks == {"sugarboxing", "renamedupmembers", "out", "dir", "x1"}

\* re.match(r'^[a-zA-Z0-9]+$', key): '$' also matches before one trailing newline
validate_option_key(key) ==
    LET body == IF Len(key) > 0 /\ key[Len(key)] = "\n"
                THEN SubSeq(key, 1, Len(key) - 1) ELSE key
    IN  /\ Len(body) > 0
        /\ \A i \in 1..Len(body) : body[i] \in AlnumChunks

\* one "--<key>", "<value>" pair per accepted item, in the mapping's order
RECURSIVE OptionArgs(_)
OptionArgs(items) ==
    IF Len(items) = 0 THEN <<>>
    ELSE LET it == items[1]
             val_str == IF it.isbool THEN Lower(it.str) ELSE it.str
         IN  (IF validate_option_key(it.key)
              THEN << <<"--">> \o it.key, <<val_str>> >>
              ELSE <<>>) \o OptionArgs(Tail(items))

\* the two default flags put ahead of the optional ones
FlagArgsDefaultsFirst(a) ==
    << <<"--comments">>, <<"false">>, <<"--showversion">>, <<"false">> >>
    \o (IF a.ignore_exceptions THEN << <<"--ignoreexceptions">>, <<"true">> >> ELSE <<>>)
    \o (IF a.hide_utf THEN << <<"--hideutf">>, <<"true">> >> ELSE <<>>)

FlagArgs(a) ==
    (IF a.ignore_exceptions THEN << <<"--ignoreexceptions">>, <<"true">> >> ELSE <<>>)
    \o (IF a.hide_utf THEN << <<"--hideutf">>, <<"true">> >> ELSE <<>>)
    \o << <<"--comments">>, <<"false">>, <<"--showversion">>, <<"false">> >>

MethodArgs(a) ==
    IF a.method_name # NoName THEN << <<"--methodname">>, a.method_name >> ELSE <<>>

CmdHead(target) == << <<"java">>, <<"-jar">>, <<CFR_JAR_PATH>>, target >>

Raise(r, e) == [r EXCEPT !.pc = "raised", !.error = e]

ReturnText(r, text) == [r EXCEPT !.pc = "returned", !.result = text]

FileNotFoundText(im, path) ==
    IF im = "v1" THEN <<"Error: File not found", " (zh): ", path>>
    ELSE <<"Error: File not found", ": ", path>>

JarNotFoundText(im) ==
    IF im = "v1" THEN <<"Error: CFR jar not found", " at (zh): ", CFR_JAR_PATH>>
    ELSE <<"Error: CFR jar not found", " at: ", CFR_JAR_PATH>>

\* a suffix test that tells upper case from lower case
IsArchiveExact(path) == PathSuffix(path) = ".jar"

IsArchive(path) == Lower(PathSuffix(path)) = ".jar"

\* Route with the method-name test ahead of the class-name test
RouteMethodFirst(r, a) ==
    LET path == a.file_path
        base_args == FlagArgs(a) \o OptionArgs(a.options.items)
    IN  IF IsArchive(path)
        THEN IF a.method_name # NoName
             THEN [r EXCEPT !.pc = "scan", !.route = "method",
                            !.base_args = base_args \o MethodArgs(a)]
             ELSE IF a.class_name # NoName
             THEN [r EXCEPT !.pc = "scan", !.route = "class", !.base_args = base_args]
             ELSE [r EXCEPT !.pc = "run", !.route = "single", !.target = <<path>>,
                            !.cmd = CmdHead(<<path>>) \o base_args]
        ELSE [r EXCEPT !.pc = "run", !.route = "single", !.target = <<path>>,
                       !.cmd = CmdHead(<<path>>) \o base_args \o MethodArgs(a)]

\* Route with the method filter also handed to the class strategy
RouteClassWithMethod(r, a) ==
    LET path == a.file_path
        base_args == FlagArgs(a) \o OptionArgs(a.options.items)
    IN  IF IsArchive(path)
        THEN IF a.class_name # NoName
             THEN [r EXCEPT !.pc = "scan", !.route = "class",
                            !.base_args = base_args \o MethodArgs(a)]
             ELSE IF a.method_name # NoName
             THEN [r EXCEPT !.pc = "scan", !.route = "method",
                            !.base_args = base_args \o MethodArgs(a)]
             ELSE [r EXCEPT !.pc = "run", !.route = "single", !.target = <<path>>,
                            !.cmd = CmdHead(<<path>>) \o base_args]
        ELSE [r EXCEPT !.pc = "run", !.route = "single", !.target = <<path>>,
                       !.cmd = CmdHead(<<path>>) \o base_args \o MethodArgs(a)]

\* v2 routing, after validation and argument building
Route(r, a) ==
    LET path == a.file_path
        base_args == FlagArgs(a) \o OptionArgs(a.options.items)
    IN  IF IsArchive(path)
        THEN IF a.class_name # NoName
             THEN [r EXCEPT !.pc = "scan", !.route = "class", !.base_args = base_args]
             ELSE IF a.method_name # NoName
             THEN [r EXCEPT !.pc = "scan", !.route = "method",
                            !.base_args = base_args \o MethodArgs(a)]
             ELSE [r EXCEPT !.pc = "run", !.route = "single", !.target = <<path>>,
                            !.cmd = CmdHead(<<path>>) \o base_args]
        ELSE [r EXCEPT !.pc = "run", !.route = "single", !.target = <<path>>,
                       !.cmd = CmdHead(<<path>>) \o base_args \o MethodArgs(a)]

\* v1 builds one command: the method filter first, then flags and options
RouteV1(r, a) ==
    [r EXCEPT !.pc = "run", !.route = "single", !.target = <<a.file_path>>,
              !.cmd = CmdHead(<<a.file_path>>) \o MethodArgs(a) \o FlagArgs(a)
                          \o OptionArgs(a.options.items)]

\* the synchronous work called in the handler itself, on the event loop
run_on_loop(r) == [r EXCEPT !.thread = "loop"]

\* await loop.run_in_executor(None, partial(...)): the synchronous work of
\* the route is handed to a thread of the default pool
run_in_executor(r) == [r EXCEPT !.thread = "pool"]

\* a handler that does not look for the decompiler jar
DispatchNoJarCheck(im, t, a, jarPresent) ==
    LET r == [IdleCall EXCEPT !.transport = t, !.args = a, !.cfr_jar = jarPresent]
    IN  IF a.name # "decompile" THEN Raise(r, "ValueError: Unknown tool")
        ELSE IF a.file_path \in {None, ""}
        THEN Raise(r, "ValueError: file_path is required")
        ELSE IF ~PathExists(a.file_path)
        THEN ReturnText(r, FileNotFoundText(im, a.file_path))
        ELSE IF a.options.kind = "null"
        THEN Raise(r, "AttributeError: 'NoneType' object has no attribute 'items'")
        ELSE run_in_executor(IF im = "v1" THEN RouteV1(r, a) ELSE Route(r, a))

\* the handler from entry to its first await (or its raise / early return)
Dispatch(im, t, a, jarPresent) ==
    LET r == [IdleCall EXCEPT !.transport = t, !.args = a, !.cfr_jar = jarPresent]
    IN  IF a.name # "decompile" THEN Raise(r, "ValueError: Unknown tool")
        ELSE IF a.file_path \in {None, ""}
        THEN Raise(r, "ValueError: file_path is required")
        ELSE IF ~PathExists(a.file_path)
        THEN ReturnText(r, FileNotFoundText(im, a.file_path))
        ELSE IF ~jarPresent THEN ReturnText(r, JarNotFoundText(im))
        ELSE IF a.options.kind = "null"
        THEN Raise(r, "AttributeError: 'NoneType' object has no attribute 'items'")
        ELSE run_in_executor(IF im = "v1" THEN RouteV1(r, a) ELSE Route(r, a))

Others == <<impl, mode, logger, mainPc, stdio, sse>>

\* the steps of a call that block the thread they run on
Blocking(r) == r.pc \in {"scan", "mkdtemp", "open", "extract", "run", "wait", "cleanup"}

\* the event loop of transport t runs handlers: no call of that transport
\* holds it with blocking work
LoopFree(t) ==
    \A d \in Calls :
        ~(call[d].transport = t /\ call[d].thread = "loop" /\ Blocking(call[d]))

\* one call at a time: the handler takes a call when no other is in flight
call_tool(c) ==
    /\ \A d \in Calls : call[d].pc = "idle"
    /\ \E t \in {"stdio", "sse"}, a \in ArgSpace, jarPresent \in BOOLEAN :
          /\ Serving(t) /\ LoopFree(t)
          /\ call' = [call EXCEPT ![c] = Dispatch(impl, t, a, jarPresent)]
    /\ UNCHANGED <<Others, tmp>>

\* calls arriving while others are in flight (on either transport)
call_tool_concurrent(c) ==
    /\ call[c].pc = "idle"
    /\ \E t \in {"stdio", "sse"}, a \in ConcArgSpace :
          /\ Serving(t) /\ LoopFree(t)
          /\ call' = [call EXCEPT ![c] = Dispatch(impl, t, a, TRUE)]
    /\ UNCHANGED <<Others, tmp>>

\* ------------------------------------------------- the archive strategies
\* a scan result handled without the early return
AfterScanNoReturn(s, cands, notFound) == [s EXCEPT !.pc = "mkdtemp"]

\* "if not candidates: return <not found>", else on to the workspace
AfterScan(s, cands, notFound) ==
    IF cands = <<>>
    THEN [s EXCEPT !.pc = "returning", !.result = notFound]
    ELSE [s EXCEPT !.pc = "mkdtemp"]

\* decompile_jar_class_sync up to its early return / candidate list
ScanClass(c) ==
    LET r == call[c] IN
    /\ r.pc = "scan" /\ r.route = "class"
    /\ \E openOk \in BOOLEAN :
          LET cands == find_class_by_name_in_jar(ArchiveEntries, r.args.class_name, openOk)
              s == [r EXCEPT !.scans = @ + 1, !.candidates = cands,
                            !.scanFailed = ~openOk]
          IN  call' = [call EXCEPT ![c] =
                  AfterScan(s, cands, ClassNotFoundMsg(r.args.class_name,
                                                       r.args.file_path))]
    /\ UNCHANGED <<Others, tmp>>

\* decompile_jar_method_sync up to its early return / candidate list
ScanMethod(c) ==
    LET r == call[c] IN
    /\ r.pc = "scan" /\ r.route = "method"
    /\ \E failAt \in ScanFailPoints(ArchiveEntries) :
          LET cands == find_classes_in_jar(ArchiveEntries, r.args.method_name, failAt)
              s == [r EXCEPT !.scans = @ + 1, !.candidates = cands,
                            !.scanFailed = (failAt <= Len(ArchiveEntries))]
          IN  call' = [call EXCEPT ![c] =
                  AfterScan(s, cands, MethodNotFoundMsg(r.args.method_name,
                                                        r.args.file_path))]
    /\ UNCHANGED <<Others, tmp>>

\* a name generator that can repeat a name in use
AnyNames == TmpNames

\* tempfile.TemporaryDirectory(): mkdtemp creates a directory under a name
\* that no existing directory has
FreshNames == {n \in TmpNames : ~tmp[n].exists}

MakeWorkspace(c) ==
    /\ call[c].pc = "mkdtemp"
    /\ \E n \in FreshNames :
          /\ tmp' = [tmp EXCEPT ![n] = [exists |-> TRUE, owner |-> c, files |-> {}]]
          /\ call' = [call EXCEPT ![c].ws = n, ![c].made = @ + 1, ![c].pc = "open"]
    /\ UNCHANGED Others

\* a cleanup that leaves the directory behind
CleanupDirLeak(t, n) == t

\* TemporaryDirectory.__exit__: the directory and what it holds are removed
CleanupDir(t, n) == [t EXCEPT ![n] = NoDir]

\* "for class_file in candidates": on to the next candidate, or out of the loop
NextCandidate(r) ==
    [r EXCEPT !.idx = @ + 1,
              !.pc = IF r.idx + 1 > Len(r.candidates) THEN "cleanup" ELSE "extract"]

\* zipfile.ZipFile(jar_path) inside the with-block: when the archive can no
\* longer be opened the exception leaves both with-blocks and the call
OpenJar(c) ==
    LET r == call[c] IN
    /\ r.pc = "open"
    /\ \/ /\ call' = [call EXCEPT ![c] = NextCandidate(r)]
          /\ UNCHANGED tmp
       \/ /\ tmp' = CleanupDir(tmp, r.ws)
          /\ call' = [call EXCEPT ![c] = Raise([r EXCEPT !.ws = 0], "BadZipFile")]
    /\ UNCHANGED Others

\* the except branch of the candidate loop
CandidateFailed(r, class_file, e) ==
    IF r.route = "class"
    THEN [r EXCEPT !.results = Append(@, FailedBlock(class_file, e))]
    ELSE r

\* jar.extract(class_file, temp_path) and the command for the extracted file
Extract(c) ==
    LET r == call[c]
        class_file == r.candidates[r.idx]
    IN
    /\ r.pc = "extract"
    /\ \/ /\ tmp' = [tmp EXCEPT ![r.ws].files = @ \cup {class_file}]
          /\ call' = [call EXCEPT ![c] =
                 [r EXCEPT !.pc = "run", !.extracted = @ + 1, !.target = class_file,
                           !.cmd = CmdHead(<<DirStr(r.ws), "/">> \o class_file)
                                       \o r.base_args]]
       \/ /\ UNCHANGED tmp
          /\ call' = [call EXCEPT ![c] =
                 NextCandidate(CandidateFailed(
                     [r EXCEPT !.failed = @ \cup {class_file}],
                     class_file, ExtractErrorStr))]
    /\ UNCHANGED Others

\* a loop that keeps every text that is not blank, in both strategies
KeepOutputNonBlank(r, output) == ~IsBlank(output)

\* what the caller of run_cfr_sync does with the text it returns
KeepOutput(r, output) ==
    IF r.route = "class" THEN ~IsBlank(output)
    ELSE Contains(output, r.args.method_name)

\* a loop that puts each new block in front of the earlier ones
AfterRunPrepend(r0, proc) ==
    LET output == run_cfr_sync(impl, proc)
        r == [r0 EXCEPT !.proc = proc, !.output = output]
    IN  IF r.route = "single"
        THEN [r EXCEPT !.pc = "returning", !.result = output]
        ELSE NextCandidate(
                IF KeepOutput(r, output)
                THEN [r EXCEPT !.results = <<SourceBlock(r.target, output)>> \o @]
                ELSE r)

AfterRun(r0, proc) ==
    LET output == run_cfr_sync(impl, proc)
        r == [r0 EXCEPT !.proc = proc, !.output = output]
    IN  IF r.route = "single"
        THEN [r EXCEPT !.pc = "returning", !.result = output]
        ELSE NextCandidate(
                IF KeepOutput(r, output)
                THEN [r EXCEPT !.results = Append(@, SourceBlock(r.target, output))]
                ELSE r)

WithMethod(cmd) == \E i \in 1..Len(cmd) : cmd[i] = <<"--methodname">>

\* run_cfr_sync, subprocess.run: the child is spawned, or spawning raises
Spawn(c) ==
    LET r == [call[c] EXCEPT !.runs = @ + 1] IN
    /\ call[c].pc = "run"
    /\ \/ call' = [call EXCEPT ![c] =
                     [r EXCEPT !.pc = "wait", !.child = "running", !.spawned = @ + 1]]
       \/ call' = [call EXCEPT ![c] =
                     AfterRun([r EXCEPT !.failed = @ \cup {r.target}], ProcOSError)]
    /\ UNCHANGED <<Others, tmp>>

\* the child ends within the timeout
ChildExit(c) ==
    LET r == call[c]
        proc == ProcExit(r.target, WithMethod(r.cmd))
    IN
    /\ r.pc = "wait"
    /\ call' = [call EXCEPT ![c] =
                  AfterRun([r EXCEPT !.child = "exited"], proc)]
    /\ UNCHANGED <<Others, tmp>>

\* TimeoutExpired: subprocess.run kills the child and waits for it
ChildTimeout(c) ==
    LET r == call[c] IN
    /\ r.pc = "wait"
    /\ call' = [call EXCEPT ![c] =
                  AfterRun([r EXCEPT !.child = "killed", !.timedOut = TRUE,
                                     !.failed = @ \cup {r.target}],
                           ProcTimeout)]
    /\ UNCHANGED <<Others, tmp>>

\* an aggregation that answers "not found" when no block was retained
AggregateNotFound(r) ==
    IF r.results = <<>>
    THEN IF r.route = "class"
         THEN ClassNotFoundMsg(r.args.class_name, r.args.file_path)
         ELSE MethodNotFoundMsg(r.args.method_name, r.args.file_path)
    ELSE Join(r.results, <<"\n\n">>)

\* an aggregation that is the join alone
AggregateJoinOnly(r) == Join(r.results, <<"\n\n">>)

\* the text a batch returns after its candidate loop
Aggregate(r) ==
    IF r.results = <<>>
    THEN IF r.route = "class" THEN ClassNoOutputMsg(Len(r.candidates))
         ELSE MethodNoOutputMsg(r.args.method_name, Len(r.candidates))
    ELSE Join(r.results, <<"\n\n">>)

\* the with-blocks end: the workspace is removed, the batch returns its text
Cleanup(c) ==
    LET r == call[c] IN
    /\ r.pc = "cleanup"
    /\ tmp' = CleanupDir(tmp, r.ws)
    /\ call' = [call EXCEPT ![c] =
                  [r EXCEPT !.pc = "returning", !.ws = 0, !.result = Aggregate(r)]]
    /\ UNCHANGED Others

\* back on the event loop: call_tool returns the text
Finish(c) ==
    /\ call[c].pc = "returning"
    /\ LoopFree(call[c].transport)
    /\ call' = [call EXCEPT ![c].pc = "returned"]
    /\ UNCHANGED <<Others, tmp>>

\* the response (or the error) is delivered and the call is over
Forget(c) ==
    /\ call[c].pc \in {"returned", "raised"}
    /\ call' = [call EXCEPT ![c] = IdleCall]
    /\ UNCHANGED <<Others, tmp>>

\* ------------------------------------------------------------ specification
Startup ==
    \/ setup_logging
    \/ run_stdio_mode
    \/ run_sse_mode
    \/ run_both_mode
    \/ run_sse_server

Worker(c) ==
    \/ ScanClass(c)
    \/ ScanMethod(c)
    \/ MakeWorkspace(c)
    \/ OpenJar(c)
    \/ Extract(c)
    \/ Spawn(c)
    \/ ChildExit(c)
    \/ ChildTimeout(c)
    \/ Cleanup(c)
    \/ Finish(c)
    \/ Forget(c)

Next ==
    \/ Startup
    \/ \E c \in Calls : call_tool(c)
    \/ \E c \in Calls : Worker(c)

Spec == Init /\ [][Next]_vars

\* concurrent calls: on both transports of one v2 process, and on the HTTP
\* transport of v1
InitConc == Init /\ (impl = "v2" => mode = "both")

NextConc ==
    \/ setup_logging
    \/ run_sse_mode
    \/ run_both_mode
    \/ run_stdio_mode
    \/ run_sse_server
    \/ \E c \in Calls : call_tool_concurrent(c)
    \/ \E c \in Calls : Worker(c)

SpecConc == InitConc /\ [][NextConc]_vars

\* ------------------------------------------------------------------ claims
Done(r) == r.pc \in {"returning", "returned"}

Batch(r) == r.route \in {"class", "method"}

\* the call passed validation: a decompile call, file_path present, the file
\* exists, the decompiler jar exists
Validated(r) ==
    /\ r.pc # "idle"
    /\ r.args.name = "decompile"
    /\ r.args.file_path \notin {None, ""}
    /\ PathExists(r.args.file_path)
    /\ r.cfr_jar

JarPath(p) == PathSuffix(p) \in {".jar", ".JAR"}

HasArg(cmd, flag, value) ==
    \E i \in 1..(Len(cmd) - 1) : cmd[i] = flag /\ cmd[i + 1] = value

\* C1: in v2, every validated call whose handler reached dispatch took the one
\* route its arguments name: archive + class_name -> class strategy; archive +
\* method_name without class_name -> method strategy; archive with neither, or a
\* non-archive -> no scan, no workspace, and once the call has its text exactly
\* one run_cfr_sync on the file itself, with --methodname <name> exactly when a
\* non-archive call names a method.
C1_Routing ==
    \A c \in Calls :
        LET r == call[c]
            a == r.args
            single == /\ r.route = "single"
                      /\ r.scans = 0 /\ r.made = 0 /\ r.extracted = 0
                      /\ r.target = <<a.file_path>>
                      /\ r.cmd[4] = <<a.file_path>>
                      /\ r.runs = (IF Done(r) THEN 1 ELSE r.runs)
                      /\ r.runs <= 1
        IN  (impl = "v2" /\ Validated(r) /\ a.options.kind # "null") =>
              /\ (JarPath(a.file_path) /\ a.class_name # NoName) =>
                    /\ r.route = "class"
                    /\ r.target # <<a.file_path>>
                    /\ (Done(r) => r.scans = 1)
              /\ (JarPath(a.file_path) /\ a.class_name = NoName /\ a.method_name # NoName) =>
                    /\ r.route = "method"
                    /\ r.target # <<a.file_path>>
                    /\ (Done(r) => r.scans = 1)
              /\ (JarPath(a.file_path) /\ a.class_name = NoName /\ a.method_name = NoName) =>
                    /\ single
                    /\ ~WithMethod(r.cmd)
              /\ ~JarPath(a.file_path) =>
                    /\ single
                    /\ (a.method_name # NoName
                          <=> HasArg(r.cmd, <<"--methodname">>, a.method_name))
                    /\ (a.method_name = NoName => ~WithMethod(r.cmd))

\* an archive call naming both a class and a method came back from the class strategy
C1_Witness ==
    \E c \in Calls :
        /\ impl = "v2" /\ call[c].pc = "returned" /\ Validated(call[c])
        /\ call[c].args.class_name # NoName /\ call[c].args.method_name # NoName
        /\ call[c].route = "class" /\ call[c].runs > 0

\* C2: a decompile call ends by raising only when file_path is missing or empty.
C2_OnlyMissingPathRaises ==
    \A c \in Calls :
        (call[c].pc = "raised" /\ call[c].args.name = "decompile")
            => call[c].args.file_path \in {None, ""}

\* C3: in both archive strategies every candidate whose extraction or invocation
\* failed has a block naming it in the aggregated result, and the loop went
\* through every candidate.
C3_FailureRecorded ==
    \A c \in Calls :
        LET r == call[c] IN
        (Batch(r) /\ Done(r) /\ r.candidates # <<>>) =>
            /\ r.idx = Len(r.candidates) + 1
            /\ \A e \in r.failed :
                  /\ \E i \in 1..Len(r.results) : Contains(r.results[i], e)
                  /\ Contains(r.result, e)

\* C4: once an archive call has left its with-blocks (it has its text, has
\* returned, or an exception has left the loop) no directory it created exists.
C4_WorkspaceRemoved ==
    \A c \in Calls :
        call[c].pc \in {"idle", "returning", "returned", "raised"}
            => /\ call[c].ws = 0
               /\ \A n \in TmpNames : ~(tmp[n].exists /\ tmp[n].owner = c)

\* the archive could not be reopened after the workspace had been made
C4_Witness ==
    \E c \in Calls :
        /\ call[c].pc = "raised" /\ call[c].made = 1
        /\ \A n \in TmpNames : ~tmp[n].exists

\* every workspace in use belongs to exactly one call
DistinctWorkspaces ==
    \A c \in Calls :
        call[c].ws # 0 =>
            /\ tmp[call[c].ws].exists /\ tmp[call[c].ws].owner = c
            /\ \A d \in Calls \ {c} : call[d].ws # call[c].ws

\* a step changes one call at most, and only that call's directory
NoInterference ==
    LET changed == {c \in Calls : call'[c] # call[c]} IN
    /\ Cardinality(changed) <= 1
    /\ \A n \in TmpNames :
          (tmp[n].exists /\ tmp'[n] # tmp[n]) => tmp[n].owner \in changed

\* what calls and transports share is written at startup only
ConfigReadOnly ==
    /\ impl' = impl /\ mode' = mode
    /\ logger # "unset" => logger' = logger
    /\ (\E c \in Calls : call[c].pc # "idle") => logger' = logger

\* C5: under any interleaving of calls on the two transports, calls in flight
\* hold pairwise distinct workspaces, a step of one call leaves every other
\* call's record and directory as they were, and the shared configuration
\* (program, mode, logger) is not written once set.
C5_Isolation == [][DistinctWorkspaces' /\ NoInterference /\ ConfigReadOnly]_vars

\* two archive calls, one per transport, hold a workspace at the same time
C5_Witness ==
    \E c, d \in Calls :
        /\ call[c].ws # 0 /\ call[d].ws # 0 /\ c # d
        /\ call[c].transport = "stdio" /\ call[d].transport = "sse"
        /\ call[c].extracted = 1 /\ call[d].extracted = 1

\* C6: a batch whose scan found no candidate answers with the not-found message
\* (naming the query; for method search also the archive name and size) and has
\* made no workspace, extracted nothing and invoked no process.
C6_NotFoundNoWork ==
    \A c \in Calls :
        LET r == call[c]
            a == r.args
        IN  (Batch(r) /\ r.scans = 1 /\ r.candidates = <<>>) =>
              /\ Done(r)
              /\ r.made = 0 /\ r.ws = 0 /\ r.extracted = 0
              /\ r.runs = 0 /\ r.spawned = 0 /\ r.child = "none"
              /\ \A n \in TmpNames : ~(tmp[n].exists /\ tmp[n].owner = c)
              /\ Contains(r.result, <<"' not found in ">>)
                    \/ Contains(r.result, <<"' not found in any class within ">>)
              /\ r.route = "class" => Contains(r.result, a.class_name)
              /\ r.route = "method" =>
                    /\ Contains(r.result, a.method_name)
                    /\ Contains(r.result, <<PathName(a.file_path)>>)
                    /\ Contains(r.result, <<PathSize(a.file_path)>>)

\* a method search whose scan found nothing has returned
C6_Witness ==
    \E c \in Calls :
        /\ call[c].pc = "returned" /\ call[c].route = "method"
        /\ call[c].scans = 1 /\ call[c].candidates = <<>>

NotFoundMessages ==
    {ClassNotFoundMsg(q, p) : q \in ClassQueries, p \in Paths}
    \cup {MethodNotFoundMsg(q, p) : q \in MethodQueries, p \in Paths}

\* C7: a batch with candidates whose loop retained no block answers with the
\* "found / matched ... but CFR produced no output" message, and that text is
\* none of the not-found messages of any query and archive.
C7_NoOutputDistinct ==
    \A c \in Calls :
        LET r == call[c] IN
        (Batch(r) /\ Done(r) /\ r.candidates # <<>> /\ r.results = <<>>) =>
            /\ EndsWith(r.result, <<" classes but CFR produced no output. */">>)
                  \/ EndsWith(r.result, <<" class(es) but CFR produced no output. */">>)
            /\ r.result \notin NotFoundMessages

\* a method search ran the decompiler on its candidates and kept none of them
C7_Witness ==
    \E c \in Calls :
        /\ call[c].pc = "returned" /\ call[c].route = "method"
        /\ Len(call[c].candidates) = 2 /\ call[c].runs = 2
        /\ call[c].results = <<>>

\* C8: a call naming a path that does not exist, or made when the decompiler jar
\* is absent, returns text beginning "Error: File not found" / "Error: CFR jar
\* not found" and has scanned no archive and run no process.
C8_EarlyErrors ==
    \A c \in Calls :
        LET r == call[c]
            a == r.args
            idle == /\ r.scans = 0 /\ r.made = 0 /\ r.runs = 0 /\ r.spawned = 0
                    /\ r.child = "none"
        IN  (r.pc # "idle" /\ a.name = "decompile" /\ a.file_path \notin {None, ""}) =>
              /\ ~PathExists(a.file_path) =>
                    /\ r.pc = "returned"
                    /\ StartsWith(r.result, <<"Error: File not found">>)
                    /\ idle
              /\ (PathExists(a.file_path) /\ ~r.cfr_jar) =>
                    /\ r.pc = "returned"
                    /\ StartsWith(r.result, <<"Error: CFR jar not found">>)
                    /\ idle

\* an archive search was asked for while the decompiler jar is absent
C8_Witness ==
    \E c \in Calls :
        /\ call[c].pc = "returned" /\ ~call[c].cfr_jar
        /\ call[c].args.file_path = PathJar /\ call[c].args.class_name # NoName
        /\ StartsWith(call[c].result, <<"Error: CFR jar not found">>)

\* C9: a call during which an invocation timed out has no running child and
\* returns text that is or contains the timeout diagnostic.
C9_TimeoutReported ==
    \A c \in Calls :
        (call[c].pc = "returned" /\ call[c].timedOut) =>
            /\ call[c].child # "running"
            /\ Contains(call[c].result, TimeoutDiag(impl))

ExecFailure(proc) ==
    \/ proc.kind = "oserror"
    \/ proc.kind = "exit" /\ proc.rc # 0 /\ proc.stdout = <<>>

\* C10 as stated: a timeout gives the fixed diagnostic and every other
\* execution failure, a non-zero exit with no stdout included, gives a
\* non-empty diagnostic.
C10_FailureHasDiagnostic ==
    \A c \in Calls :
        LET r == call[c] IN
        /\ r.proc.kind = "timeout" => r.output = TimeoutDiag(impl)
        /\ ExecFailure(r.proc) => r.output # <<>>

\* C10 amended: run_cfr_sync returns the fixed diagnostic on a timeout and a
\* non-empty "Error executing CFR" diagnostic when the child cannot be spawned;
\* a child that exits, with whatever status, is no failure to it: the text is
\* stdout plus the stderr block, empty exactly when stdout is empty and stderr
\* is empty or whitespace.
C10_RunnerText ==
    \A c \in Calls :
        LET r == call[c] IN
        /\ r.proc.kind = "timeout" => r.output = TimeoutDiag(impl)
        /\ r.proc.kind = "oserror" =>
              /\ r.output # <<>>
              /\ StartsWith(r.output, <<"/* Error executing CFR">>)
        /\ r.proc.kind = "exit" =>
              /\ StartsWith(r.output, r.proc.stdout)
              /\ (r.output = <<>>) <=> (r.proc.stdout = <<>> /\ IsBlank(r.proc.stderr))

\* a child exited non-zero with nothing on stdout or stderr: the text is empty
C10_Witness ==
    \E c \in Calls :
        /\ call[c].proc.kind = "exit" /\ call[c].proc.rc # 0
        /\ call[c].proc.stdout = <<>> /\ call[c].output = <<>>

\* the argument strings the call hands on: the command of a direct run, the
\* base arguments of a batch
Forwarded(r) == r.cmd \o r.base_args

IsForwarded(r, key) ==
    \E j \in 1..Len(Forwarded(r)) : Forwarded(r)[j] = <<"--">> \o key

\* the key is made of ASCII letters and digits only
AllAlnum(key) == Len(key) > 0 /\ \A i \in 1..Len(key) : key[i] \in AlnumChunks

HasDashOrSpace(key) == \E i \in 1..Len(key) : key[i] \in WS \cup {"-"}

\* the handler got as far as building its arguments
Built(r) == Validated(r) /\ r.route # "none"

\* C11: an options key is forwarded as --<key> only if it is all ASCII letters
\* and digits; a key holding '-' or a space, tab or newline anywhere is never
\* forwarded, and every all-alphanumeric key of the same mapping is forwarded.
C11_OnlyAlnumForwarded ==
    \A c \in Calls :
        LET r == call[c]
            items == r.args.options.items
        IN  Built(r) =>
              \A i \in 1..Len(items) :
                  /\ IsForwarded(r, items[i].key) => AllAlnum(items[i].key)
                  /\ HasDashOrSpace(items[i].key) => ~IsForwarded(r, items[i].key)
                  /\ AllAlnum(items[i].key) => IsForwarded(r, items[i].key)

Range(seq) == {seq[i] : i \in 1..Len(seq)}

DotClass == <<".", "class">>

\* the simple name a query gives, with or without a ".class" ending
SimpleName(q) == IF EndsWith(q, DotClass) THEN SubSeq(q, 1, Len(q) - 2) ELSE q

\* C12: when the archive is read, the class-name scan returns, each entry once,
\* for a fully-qualified query (has '.', does not end in '.class') the entries
\* whose path is the query with '.' turned into '/' plus '.class' (at most one,
\* never an entry that only ends with that path), and for a simple name every
\* entry whose path is '<Name>.class' or ends with '/<Name>.class'.
C12_ClassScanExact ==
    \A c \in Calls :
        LET r == call[c]
            q == r.args.class_name
            qualified == HasDot(q) /\ ~EndsWith(q, DotClass)
            full == ReplaceTok(q, ".", "/") \o DotClass
            simple == SimpleName(q) \o DotClass
        IN  (r.route = "class" /\ r.scans = 1 /\ ~r.scanFailed) =>
              /\ Cardinality(Range(r.candidates)) = Len(r.candidates)
              /\ qualified =>
                    /\ Range(r.candidates) = {e \in Range(ArchiveEntries) : e = full}
                    /\ Len(r.candidates) <= 1
              /\ ~qualified =>
                    Range(r.candidates) =
                        {e \in Range(ArchiveEntries) :
                            e = simple \/ EndsWith(e, <<"/">> \o simple)}

\* the query pkg.Foo took pkg/Foo.class and left other/pkg/Foo.class
C12_Witness ==
    \E c \in Calls :
        /\ call[c].route = "class" /\ call[c].pc = "returned" /\ ~call[c].scanFailed
        /\ call[c].args.class_name = <<"pkg", ".", "Foo">>
        /\ call[c].candidates = <<EFoo>>
        /\ EOtherFoo \in Range(ArchiveEntries)

\* C13: in a method search every scan candidate is a '.class' entry whose raw
\* bytes hold the method name; and when the archive was read through, the
\* result has, in archive order, one block '// Source: <entry>' + output per
\* entry that ends in '.class', holds the name in its bytes and whose
\* decompilation gave output containing the name, and no other block.
C13_MethodBlocks ==
    \A c \in Calls :
        LET r == call[c]
            mn == r.args.method_name
            Out(e) == run_cfr_sync(impl, ProcExit(e, TRUE))
            Want(e) == /\ IsClassEntry(e) /\ mn \in EntryBytes(e)
                       /\ e \notin r.failed /\ Contains(Out(e), mn)
            expected == SelectSeq(ArchiveEntries, Want)
        IN  (r.route = "method" /\ r.scans = 1) =>
              /\ \A i \in 1..Len(r.candidates) :
                    IsClassEntry(r.candidates[i]) /\ mn \in EntryBytes(r.candidates[i])
              /\ (Done(r) /\ ~r.scanFailed) =>
                    /\ Len(r.results) = Len(expected)
                    /\ \A i \in 1..Len(expected) :
                          /\ r.results[i] = <<"// Source: ">> \o expected[i] \o <<"\n">>
                                                \o Out(expected[i])
                          /\ Contains(r.result, r.results[i])
                    /\ expected = <<>> => ~Contains(r.result, <<"// Source: ">>)

\* computeTotal is in the bytes of two classes and of a text entry; only the
\* class whose output names it is in the result
C13_Witness ==
    \E c \in Calls :
        /\ call[c].route = "method" /\ call[c].pc = "returned" /\ ~call[c].scanFailed
        /\ call[c].candidates = <<EFoo, EOtherFoo>> /\ call[c].runs = 2
        /\ call[c].failed = {}
        /\ Len(call[c].results) = 1
        /\ StartsWith(call[c].result, <<"// Source: ">> \o EFoo)

\* C14: a scan (by class name or by method name) during which reading the
\* archive failed, at the open or at an entry after earlier entries had
\* matched, leaves the empty candidate list, and the scanner does not raise:
\* the call goes on to its not-found text.
C14_FailedScanEmpty ==
    \A c \in Calls :
        LET r == call[c] IN
        (Batch(r) /\ r.scans = 1 /\ r.scanFailed) =>
            /\ r.candidates = <<>>
            /\ Done(r)

\* C15: an archive call that names both a class and a method is served by the
\* class strategy alone: its one scan is the class-name scan (every candidate
\* is an entry the class query selects, whether or not its bytes hold the
\* method name), and neither its base arguments nor any command it builds
\* carries --methodname.
C15_OneStrategy ==
    \A c \in Calls :
        LET r == call[c]
            a == r.args
        IN  (impl = "v2" /\ Built(r) /\ JarPath(a.file_path)
               /\ a.class_name # NoName /\ a.method_name # NoName) =>
              /\ r.route = "class"
              /\ r.scans <= 1
              /\ \A i \in 1..Len(r.candidates) :
                    ClassHit(r.candidates[i], ClassTarget(a.class_name))
              /\ (r.scans = 1 /\ ~r.scanFailed) =>
                    r.candidates =
                        find_class_by_name_in_jar(ArchiveEntries, a.class_name, TRUE)
              /\ ~WithMethod(r.base_args)
              /\ ~WithMethod(r.cmd)
              /\ \A j \in 1..Len(r.cmd) : r.cmd[j] # a.method_name

\* class Bar and method computeTotal were both named: the child runs on
\* Bar.class, whose bytes do not hold the method name
C15_Witness ==
    \E c \in Calls :
        /\ impl = "v2" /\ call[c].pc = "wait" /\ call[c].child = "running"
        /\ call[c].args.class_name = <<"Bar">>
        /\ call[c].args.method_name = <<"computeTotal">>
        /\ call[c].target = EBar /\ call[c].route = "class"

\* the place in the archive of the entry a block is about
BlockNames(b, e) ==
    \/ StartsWith(b, <<"// Source: ">> \o e \o <<"\n">>)
    \/ StartsWith(b, <<"/* Failed to decompile ">> \o e \o <<": ">>)

BlockPos(b) == CHOOSE k \in 0..Len(ArchiveEntries) :
                  IF \E j \in 1..Len(ArchiveEntries) : BlockNames(b, ArchiveEntries[j])
                  THEN k > 0 /\ BlockNames(b, ArchiveEntries[k])
                  ELSE k = 0

EntryPos(e) == CHOOSE k \in 0..Len(ArchiveEntries) :
                  IF e \in Range(ArchiveEntries) THEN k > 0 /\ ArchiveEntries[k] = e
                  ELSE k = 0

\* C16: in a batch the candidates stand in archive order, the loop is at one
\* candidate at a time and has only blocks of candidates before it, the
\* blocks stand in archive order, and the returned text is the blocks joined
\* in that order.
C16_ArchiveOrder ==
    \A c \in Calls :
        LET r == call[c] IN
        Batch(r) =>
            /\ \A i, j \in 1..Len(r.candidates) :
                  i < j => EntryPos(r.candidates[i]) < EntryPos(r.candidates[j])
            /\ r.pc \in {"extract", "run", "wait"} =>
                  /\ r.idx \in 1..Len(r.candidates)
                  /\ r.pc # "extract" => r.target = r.candidates[r.idx]
            /\ \A i \in 1..Len(r.results) :
                  /\ BlockPos(r.results[i]) > 0
                  /\ r.idx > 0 /\ r.idx <= Len(r.candidates) =>
                        BlockPos(r.results[i]) < EntryPos(r.candidates[r.idx])
            /\ \A i, j \in 1..Len(r.results) :
                  i < j => BlockPos(r.results[i]) < BlockPos(r.results[j])
            /\ (Done(r) /\ r.results # <<>>) => r.result = Join(r.results, <<"\n\n">>)

\* the class query Foo gave two blocks: pkg/Foo.class first, other/pkg/Foo.class second
C16_Witness ==
    \E c \in Calls :
        /\ call[c].pc = "returned" /\ call[c].route = "class"
        /\ call[c].candidates = <<EFoo, EOtherFoo>>
        /\ Len(call[c].results) = 2
        /\ StartsWith(call[c].results[1], <<"// Source: ">> \o EFoo)
        /\ StartsWith(call[c].results[2], <<"// Source: ">> \o EOtherFoo)
        /\ call[c].result = call[c].results[1] \o <<"\n\n">> \o call[c].results[2]

\* C17: the blocking work of every call (the scan, the workspace, every
\* run_cfr_sync) is on a pool thread, so no transport's event loop is held;
\* while a child of one call is running, a free slot can take a new call, a
\* call with its text can return it, and every other call in flight has a
\* step it can take.
C17_OffEventLoop ==
    \A c \in Calls :
        LET r == call[c] IN
        /\ Blocking(r) => r.thread = "pool"
        /\ r.child = "running" =>
              /\ LoopFree(r.transport)
              /\ \A d \in Calls \ {c} :
                    /\ call[d].pc = "idle" => ENABLED call_tool_concurrent(d)
                    /\ call[d].pc = "returning" => ENABLED Finish(d)
                    /\ Blocking(call[d]) => ENABLED Worker(d)

\* two calls of one transport have their children running at the same time
C17_Witness ==
    \E c, d \in Calls :
        /\ c # d /\ call[c].transport = call[d].transport
        /\ call[c].child = "running" /\ call[d].child = "running"
        /\ call[c].thread = "pool" /\ call[d].thread = "pool"

\* C18: in both mode the stream loop is serving only when the HTTP listener
\* has bound its socket.
C18_ListenerReadyFirst ==
    (mode = "both" /\ stdio = "serving") => sse = "listening"

\* C19: the text an archive strategy (class or method search) hands back is
\* never empty nor blank, whatever the scan found and however the candidates'
\* extractions and invocations ended; a loop that kept no block gives a
\* message in its place.
C19_BatchTextNonEmpty ==
    \A c \in Calls :
        LET r == call[c] IN
        (Batch(r) /\ Done(r)) =>
            /\ r.result # <<>>
            /\ ~IsBlank(r.result)
            /\ (r.candidates # <<>> /\ r.results = <<>>) =>
                  /\ StartsWith(r.result, <<"/* Found ">>)
                        \/ StartsWith(r.result, <<"/* Method '">>)
                  /\ Contains(r.result, <<NumStr(Len(r.candidates))>>)

\* the class search for Bar ran the decompiler on Bar.class, which printed
\* nothing: the strategy returned its message
C19_Witness ==
    \E c \in Calls :
        /\ call[c].pc = "returned" /\ call[c].route = "class"
        /\ call[c].candidates = <<EBar>> /\ call[c].proc.kind = "exit"
        /\ call[c].output = <<>> /\ call[c].results = <<>>
        /\ call[c].result = ClassNoOutputMsg(1)

\* C20: for a child that ran to its exit, the runner's text is the child's
\* stdout followed by the comment block '/* [CFR STDERR] <stderr> */' when
\* stderr holds something other than whitespace, and the stdout alone when
\* stderr is empty or whitespace only (in v1 and in v2).
C20_StderrMerged ==
    \A c \in Calls :
        LET r == call[c]
            out == r.proc.stdout
            err == r.proc.stderr
            hasText == \E i \in 1..Len(err) : err[i] \notin WS
        IN  r.proc.kind = "exit" =>
              /\ hasText =>
                    /\ r.output = out \o <<"\n\n", "/*\n[CFR STDERR]\n">> \o err \o <<"\n*/">>
                    /\ Contains(r.output, err)
              /\ ~hasText => r.output = out

\* a child wrote source to stdout and a warning to stderr
C20_Witness ==
    \E c \in Calls :
        /\ call[c].proc.kind = "exit" /\ call[c].pc = "returned"
        /\ call[c].proc.stdout # <<>>
        /\ call[c].proc.stderr = <<"warn: recovered", "\n">>
        /\ StartsWith(call[c].result, call[c].proc.stdout)
        /\ EndsWith(call[c].result, <<"warn: recovered", "\n", "\n*/">>)

\* the options the handler accepts, in the mapping's order
Accepted(items) ==
    LET Ok(it) == validate_option_key(it.key) IN SelectSeq(items, Ok)

\* the text of an option value: a boolean in lowercase, anything else as it is
Rendered(it) == IF it.isbool THEN (IF it.str = "True" THEN "true" ELSE "false") ELSE it.str

\* cmd is: java -jar <jar> <target>, then the pieces in the order
\* [method] [ignoreexceptions] [hideutf] comments showversion [options]
\* when methodFirst, and with the method pair at the very end otherwise
Shaped(r, methodFirst) ==
    LET a == r.args
        cmd == r.cmd
        m == IF WithMethod(cmd) THEN 2 ELSE 0
        i == IF a.ignore_exceptions THEN 2 ELSE 0
        h == IF a.hide_utf THEN 2 ELSE 0
        acc == Accepted(a.options.items)
        f == 4 + (IF methodFirst THEN m ELSE 0)     \* the flags start after f
        o == f + i + h + 4                          \* the options start after o
        mAt == IF methodFirst THEN 4 ELSE o + 2 * Len(acc)
    IN  /\ Len(cmd) = 8 + m + i + h + 2 * Len(acc)
        /\ cmd[1] = <<"java">> /\ cmd[2] = <<"-jar">> /\ cmd[3] = <<CFR_JAR_PATH>>
        /\ EndsWith(cmd[4], r.target)
        /\ r.route = "single" => cmd[4] = <<a.file_path>>
        /\ m = 2 => (cmd[mAt + 1] = <<"--methodname">> /\ cmd[mAt + 2] = a.method_name)
        /\ i = 2 => (cmd[f + 1] = <<"--ignoreexceptions">> /\ cmd[f + 2] = <<"true">>)
        /\ h = 2 => (cmd[f + i + 1] = <<"--hideutf">> /\ cmd[f + i + 2] = <<"true">>)
        /\ cmd[f + i + h + 1] = <<"--comments">> /\ cmd[f + i + h + 2] = <<"false">>
        /\ cmd[f + i + h + 3] = <<"--showversion">> /\ cmd[f + i + h + 4] = <<"false">>
        /\ \A j \in 1..Len(acc) :
              /\ cmd[o + 2 * j - 1] = <<"--">> \o acc[j].key
              /\ cmd[o + 2 * j] = <<Rendered(acc[j])>>

\* the call has handed a command to run_cfr_sync
HasCmd(r) == r.cmd # <<>>

\* the command carries the method filter exactly when the code means it to:
\* v1 whenever a method is named; v2 in the method strategy and for a
\* non-archive file with a method named
MethodMeant(r) ==
    /\ r.args.method_name # NoName
    /\ \/ impl = "v1"
       \/ r.route = "method"
       \/ r.route = "single" /\ ~JarPath(r.args.file_path)

\* C21 as stated: every command handed to the runner is java -jar <jar>
\* <target>, then [--methodname <name>] [--ignoreexceptions true]
\* [--hideutf true] --comments false --showversion false, then one
\* --<key> <value> pair per accepted option, booleans in lowercase.
C21_MethodFirstShape ==
    \A c \in Calls : HasCmd(call[c]) => Shaped(call[c], TRUE)

\* C21 amended: the same shape, except that in v2 the --methodname pair, when
\* present, comes last, after the option pairs (in v1 it comes right after
\* the target).
C21_VectorShape ==
    \A c \in Calls :
        HasCmd(call[c]) =>
            /\ Shaped(call[c], impl = "v1")
            /\ WithMethod(call[c].cmd) <=> MethodMeant(call[c])

\* v2 runs a class file with a method, both flags and an accepted boolean
\* option: the method pair is the last of the command
C21_Witness ==
    \E c \in Calls :
        LET r == call[c] IN
        /\ impl = "v2" /\ r.pc = "wait" /\ r.args.file_path = PathClass
        /\ r.args.ignore_exceptions /\ r.args.hide_utf
        /\ Len(r.cmd) = 16
        /\ r.cmd[13] = <<"--", "sugarboxing">> /\ r.cmd[14] = <<"false">>
        /\ r.cmd[15] = <<"--methodname">> /\ r.cmd[16] = <<"computeTotal">>

\* C22: in v2 a call is served by an archive strategy only for a file whose
\* suffix is '.jar' in any letter case (and then whenever it names a class or a
\* method); for every other existing file the call, whatever its class_name,
\* scans nothing, makes no workspace, builds the command it would build
\* without class_name, and has run the decompiler exactly once, on the file
\* itself, when it has its text.
C22_ArchiveBySuffix ==
    \A c \in Calls :
        LET r == call[c]
            a == r.args
            plain == Dispatch(impl, r.transport, [a EXCEPT !.class_name = NoName], TRUE)
        IN  (impl = "v2" /\ Built(r)) =>
              /\ Batch(r) <=>
                    /\ PathSuffix(a.file_path) \in {".jar", ".JAR"}
                    /\ a.class_name # NoName \/ a.method_name # NoName
              /\ PathSuffix(a.file_path) \notin {".jar", ".JAR"} =>
                    /\ r.route = "single"
                    /\ r.scans = 0 /\ r.made = 0 /\ r.ws = 0 /\ r.extracted = 0
                    /\ r.candidates = <<>>
                    /\ r.target = <<a.file_path>> /\ r.cmd[4] = <<a.file_path>>
                    /\ r.cmd = plain.cmd
                    /\ \A j \in 1..Len(r.cmd) : r.cmd[j] # a.class_name
                    /\ r.runs <= 1
                    /\ Done(r) => r.runs = 1

\* a class file was given together with a class name and came back after one run
C22_Witness ==
    \E c \in Calls :
        /\ impl = "v2" /\ call[c].pc = "returned"
        /\ call[c].args.file_path = PathClass
        /\ call[c].args.class_name = <<"Foo">>
        /\ call[c].route = "single" /\ call[c].runs = 1 /\ call[c].scans = 0
        /\ call[c].proc.kind = "exit"

\* something that uses the logger is running: a transport (or its listener
\* thread) has been started, or a call is in flight
LoggerInUse ==
    \/ stdio # "off"
    \/ sse # "off"
    \/ \E c \in Calls : call[c].pc # "idle"

\* C23: in every mode the logger is set before a transport or the listener
\* thread starts and before any call is dispatched, so whatever uses it finds
\* it set; and once set it is never assigned again.
C23_LoggerSetFirst ==
    [][/\ LoggerInUse' => logger' = "cfr_server"
       /\ logger # "unset" => logger' = logger]_vars

\* both mode: the listener thread is up, the stream loop serves, a call has
\* run the decompiler and returned, all with the logger set
C23_Witness ==
    /\ impl = "v2" /\ mode = "both" /\ logger = "cfr_server"
    /\ sse = "listening" /\ stdio = "serving"
    /\ \E c \in Calls : call[c].pc = "returned" /\ call[c].runs = 1

====
